---------------------------- MODULE Spec2Model ----------------------------
(***************************************************************************)
(* A model of the seed-alignment core declared in aligner_seed.h:          *)
(*   - Constraint: remaining edit / penalty budgets of a zone              *)
(*   - Seed::mmSeeds: the dispatch to the canned seed policies             *)
(*   - SeedResults: the per-read container of seed hits and its ranking    *)
(*   - SeedHitSink / SeedCounterSink / SeedActionSink: locked callbacks    *)
(*   - SeedSearchMetrics::merge: summing counters of a shared object       *)
(*   - searchAllSeeds against a two-level alignment cache                  *)
(*   - instantiateSeeds: the layout of the seeds along a read              *)
(* Each component has its own specification (SpecConstraint, SpecSeeds,    *)
(* SpecResults, SpecSinks, SpecMetrics, SpecCache, SpecLayout); the        *)
(* variables of the other components are held at their idle values.        *)
(***************************************************************************)
EXTENDS Integers, Sequences, FiniteSets, TLC

VARIABLES
    con,        \* the Constraint object (a record of its fields)
    budget,     \* history: con.penalty right after instantiate()
    charged,    \* history: sum of the penalties charged since instantiate()
    ncharges,   \* history: number of charge operations since instantiate()
    factory,    \* history: the static factory the Constraint came from
    sr,         \* the SeedResults object (a record of its fields)
    added,      \* history: the QVal passed to add() per bucket since reset()
    ret,        \* the value returned by the last hitsByRank() call
    pols,       \* the EList<Seed> that mmSeeds() appends to
    call,       \* the last mmSeeds() call: its arguments and its outcome
    lock_,      \* per sink: the thread holding its mutex, or Free
    caller,     \* per thread: where it is in a report*() call on a sink
    os_,        \* per sink: the lines written to its stream, by writer
    met,        \* the counters of the shared SeedSearchMetrics
    lock,       \* the thread holding the metrics mutex, or Free
    merger,     \* per thread: where it is in its merge() call
    gcache,     \* the global alignment cache: seed sequence -> hits
    worker,     \* per thread: its read, local cache, SeedResults and step
    seeding     \* the last instantiateSeeds() call: its arguments and layout

conVars == <<con, budget, charged, ncharges, factory>>
srVars == <<sr, added, ret>>
seedVars == <<pols, call>>
sinkVars == <<lock_, caller, os_>>
metVars == <<met, lock, merger>>
cacheVars == <<gcache, worker>>
layoutVars == <<seeding>>

vars == <<con, budget, charged, ncharges, factory, sr, added, ret, pols, call,
          lock_, caller, os_, met, lock, merger, gcache, worker, seeding>>

\* the variables of the components an action of one component leaves alone
exceptCon == <<srVars, seedVars, sinkVars, metVars, cacheVars, layoutVars>>
exceptSr == <<conVars, seedVars, sinkVars, metVars, cacheVars, layoutVars>>
exceptSeed == <<conVars, srVars, sinkVars, metVars, cacheVars, layoutVars>>
exceptSink == <<conVars, srVars, seedVars, metVars, cacheVars, layoutVars>>
exceptMet == <<conVars, srVars, seedVars, sinkVars, cacheVars, layoutVars>>
exceptCache == <<conVars, srVars, seedVars, sinkVars, metVars, layoutVars>>
\* instantiateSeeds() resets the SeedResults it is given
exceptLayout == <<conVars, seedVars, sinkVars, metVars, cacheVars>>

---------------------------------------------------------------------------
(* Bounds and program constants                                            *)

\* std::numeric_limits<int>::max()
IntMax == 2147483647

\* largest explicitly configured edits / mms / ins / dels budget
MaxBudget == 1
\* largest explicitly configured penalty budget
MaxPenalty == 2
\* largest entry of the penalty table (Penalties::mm, n, ins, del)
MaxCost == 2
\* longest read a Constraint is instantiated against
MaxRdLen == 2
\* most charge operations applied to one instantiated Constraint
MaxCharges == 2

\* 0xffffffff, the "unset" value of a QVal and the start value of minsz in
\* sort().  It stands here as the largest integer the checker represents;
\* only its being larger than every real count is used.
UintMax == 2147483647

\* most seed offsets of a read (numOffs passed to reset)
MaxOffs == 2
\* most index elements in the QVal of one bucket
MaxElts == 2
\* stride between the seed offsets of a read
Per == 2
\* most non-empty add() calls between two reset() calls
MaxAdds == 2

\* largest mms passed to mmSeeds
MaxMms == 3
\* largest seed length passed to mmSeeds
MaxSeedLen == 2
\* most policies collected in one list
MaxPols == 6

\* threads that report to the sinks, merge metrics or align reads
NThreads == 2
\* most lines kept of the stream of one sink
MaxLines == 2
\* most SAActions in the list passed to reportActions
MaxActions == 2
\* seeds instantiated for one read
SeedsPerRead == 2
\* longest read, longest seed of a policy and largest interval between
\* seeds given to instantiateSeeds
MaxReadLen == 6
MaxPolicyLen == 6
MaxPer == 4

---------------------------------------------------------------------------
(* Constraint                                                              *)

\* A float that is a multiple of 1/2, or the sentinel numeric_limits<float>::max().
Flt(h) == [max |-> FALSE, h |-> h]
FltMax == [max |-> TRUE, h |-> 0]

\* (int)x for the float x = n/2: conversion truncates toward zero.
TruncHalves(n) == IF n >= 0 THEN n \div 2 ELSE -((-n) \div 2)

\* Constraint::init(): fully permissive, not instantiated.
Constraint_init ==
    [edits |-> IntMax, mms |-> IntMax, ins |-> IntMax, dels |-> IntMax,
     penalty |-> IntMax,
     editsCeil |-> IntMax, mmsCeil |-> IntMax, insCeil |-> IntMax,
     delsCeil |-> IntMax, penaltyCeil |-> IntMax,
     penConst |-> FltMax, penLinear |-> FltMax,
     instantiated |-> FALSE]

BudgetVals == (0..MaxBudget) \cup {IntMax}
PenaltyVals == (0..MaxPenalty) \cup {IntMax}
CeilVals == {0, IntMax}
CeilFields == {"editsCeil", "mmsCeil", "insCeil", "delsCeil", "penaltyCeil"}
\* ceilings as the policy code sets them: at most two of the five are lowered
CeilConfigs ==
    {f \in [CeilFields -> CeilVals] :
        Cardinality({k \in CeilFields : f[k] # IntMax}) <= 2}
\* (penConst, penLinear) pairs in halves: unset, or a length-linear function
PenFuncVals ==
    {<<FltMax, FltMax>>} \cup
    {<<Flt(c), Flt(l)>> : c \in {-3, 0, 3}, l \in {0, 1}}

\* chargeMismatch taking the penalty only, no unit of a budget
chargeMismatchPenaltyOnly(c, cost) == [c EXCEPT !.penalty = @ - cost]

\* canMismatch with the penalty comparison left out
canMismatchNoPenalty(c, cost) == (c.mms > 0 \/ c.edits > 0)

canMismatch(c, cost) == (c.mms > 0 \/ c.edits > 0) /\ c.penalty >= cost

canN(c, cost) == (c.mms > 0 \/ c.edits > 0) /\ c.penalty >= cost

canDelete(c, cost) == (c.dels > 0 /\ c.edits > 0) /\ c.penalty >= cost

canInsert(c, cost) == (c.ins > 0 \/ c.edits > 0) /\ c.penalty >= cost

\* Constraint::mustMatch()
mustMatch(c) ==
    \/ (c.mms = 0 /\ c.edits = 0)
    \/ c.penalty = 0
    \/ (c.mms = 0 /\ c.dels = 0 /\ c.ins = 0)

\* Constraint::canMismatch(), canDelete(), canInsert(): the forms without
\* arguments, for a mismatch of any quality / a gap of any extension
canMismatchAny(c) == (c.mms > 0 \/ c.edits > 0) /\ c.penalty > 0

canDeleteAny(c) == (c.dels > 0 \/ c.edits > 0) /\ c.penalty > 0

canInsertAny(c) == (c.ins > 0 \/ c.edits > 0) /\ c.penalty > 0

chargeMismatch(c, cost) ==
    IF c.mms = 0
    THEN [c EXCEPT !.edits = @ - 1, !.penalty = @ - cost]
    ELSE [c EXCEPT !.mms = @ - 1, !.penalty = @ - cost]

\* chargeN giving a mismatch back when none is left
chargeNCredits(c, cost) ==
    IF c.mms = 0
    THEN [c EXCEPT !.mms = 1, !.penalty = @ - cost]
    ELSE [c EXCEPT !.mms = @ - 1, !.penalty = @ - cost]

chargeN(c, cost) ==
    IF c.mms = 0
    THEN [c EXCEPT !.edits = @ - 1, !.penalty = @ - cost]
    ELSE [c EXCEPT !.mms = @ - 1, !.penalty = @ - cost]

chargeDelete(c, cost) ==
    [c EXCEPT !.dels = @ - 1, !.edits = @ - 1, !.penalty = @ - cost]

chargeInsert(c, cost) ==
    [c EXCEPT !.ins = @ - 1, !.edits = @ - 1, !.penalty = @ - cost]

acceptable(c) ==
    /\ c.edits <= c.editsCeil
    /\ c.mms <= c.mmsCeil
    /\ c.ins <= c.insCeil
    /\ c.dels <= c.delsCeil
    /\ c.penalty <= c.penaltyCeil

\* static Constraint::instantiate(rdlen, penConst, penLinear):
\* (int)(0.5f + penConst + penLinear * rdlen), the floats in halves.
instantiatePenalty(rdlen, penConst, penLinear) ==
    TruncHalves(1 + penConst.h + penLinear.h * rdlen)

\* instantiate() computing the penalty whether or not penConst is set
instantiateAlways(c, rdlen) ==
    [c EXCEPT !.penalty = instantiatePenalty(rdlen, c.penConst, c.penLinear),
              !.instantiated = TRUE]

\* Constraint::instantiate(rdlen)
instantiate(c, rdlen) ==
    IF c.penConst # FltMax
    THEN [c EXCEPT !.penalty = instantiatePenalty(rdlen, c.penConst, c.penLinear),
                   !.instantiated = TRUE]
    ELSE [c EXCEPT !.instantiated = TRUE]

\* the Constraint was built field by field / by a static factory
NoFactory == [name |-> "none", n |-> 0]
Factory(name, n) == [name |-> name, n |-> n]

\* static Constraint::exact(): no edits of any kind allowed
exact ==
    [Constraint_init EXCEPT
        !.edits = 0, !.mms = 0, !.ins = 0, !.dels = 0, !.penalty = 0]

\* static Constraint::mmBased(mms): up to mms mismatches, nothing else
mmBased(n) ==
    [Constraint_init EXCEPT !.mms = n, !.edits = 0, !.ins = 0, !.dels = 0]

\* The public fields are set by the policy code before instantiation.
Configure ==
    /\ ~con.instantiated
    /\ con = Constraint_init
    /\ \E e \in BudgetVals, m \in BudgetVals, i \in BudgetVals, d \in BudgetVals,
          p \in PenaltyVals, pf \in PenFuncVals,
          cl \in CeilConfigs :
          con' = [Constraint_init EXCEPT
                     !.edits = e, !.mms = m, !.ins = i, !.dels = d,
                     !.penalty = p, !.penConst = pf[1], !.penLinear = pf[2],
                     !.editsCeil = cl.editsCeil, !.mmsCeil = cl.mmsCeil,
                     !.insCeil = cl.insCeil, !.delsCeil = cl.delsCeil,
                     !.penaltyCeil = cl.penaltyCeil]
    /\ UNCHANGED <<budget, charged, ncharges, factory>>
    /\ UNCHANGED exceptCon

\* c = Constraint::exact()
Exact ==
    /\ ~con.instantiated
    /\ con = Constraint_init
    /\ con' = exact
    /\ factory' = Factory("exact", 0)
    /\ UNCHANGED <<budget, charged, ncharges>>
    /\ UNCHANGED exceptCon

\* c = Constraint::mmBased(n)
MmBased ==
    /\ ~con.instantiated
    /\ con = Constraint_init
    /\ \E n \in 0..MaxBudget :
          /\ con' = mmBased(n)
          /\ factory' = Factory("mmBased", n)
    /\ UNCHANGED <<budget, charged, ncharges>>
    /\ UNCHANGED exceptCon

Instantiate ==
    /\ ~con.instantiated
    /\ \E rdlen \in 1..MaxRdLen :
          /\ con' = instantiate(con, rdlen)
          /\ budget' = con'.penalty
    /\ charged' = 0
    /\ ncharges' = 0
    /\ UNCHANGED factory
    /\ UNCHANGED exceptCon

\* Each charge is made by a caller that has just evaluated the matching
\* can* predicate with the same quality / extension and penalty table;
\* cost stands for the table entry cm.mm(q), cm.n(q), cm.ins(ex), cm.del(ex).
ChargeMismatch ==
    /\ con.instantiated /\ ncharges < MaxCharges
    /\ \E cost \in 0..MaxCost :
          /\ canMismatch(con, cost)
          /\ con' = chargeMismatch(con, cost)
          /\ charged' = charged + cost
    /\ ncharges' = ncharges + 1
    /\ UNCHANGED <<budget, factory>>
    /\ UNCHANGED exceptCon

ChargeN ==
    /\ con.instantiated /\ ncharges < MaxCharges
    /\ \E cost \in 0..MaxCost :
          /\ canN(con, cost)
          /\ con' = chargeN(con, cost)
          /\ charged' = charged + cost
    /\ ncharges' = ncharges + 1
    /\ UNCHANGED <<budget, factory>>
    /\ UNCHANGED exceptCon

ChargeDelete ==
    /\ con.instantiated /\ ncharges < MaxCharges
    /\ \E cost \in 0..MaxCost :
          /\ canDelete(con, cost)
          /\ con' = chargeDelete(con, cost)
          /\ charged' = charged + cost
    /\ ncharges' = ncharges + 1
    /\ UNCHANGED <<budget, factory>>
    /\ UNCHANGED exceptCon

ChargeInsert ==
    /\ con.instantiated /\ ncharges < MaxCharges
    /\ \E cost \in 0..MaxCost :
          /\ canInsert(con, cost)
          /\ con' = chargeInsert(con, cost)
          /\ charged' = charged + cost
    /\ ncharges' = ncharges + 1
    /\ UNCHANGED <<budget, factory>>
    /\ UNCHANGED exceptCon

ConstraintIdle ==
    /\ con = Constraint_init
    /\ budget = IntMax
    /\ charged = 0
    /\ ncharges = 0
    /\ factory = NoFactory

---------------------------------------------------------------------------
(* QVal (aligner_cache.h): a descriptor of the ranges cached for one seed  *)

QVal(r, e) == [rangen_ |-> r, eltn_ |-> e]
\* QVal::reset(): the unset descriptor
QVal_reset == QVal(UintMax, UintMax)
QVal_valid(q) == q.rangen_ # UintMax
QVal_numRanges(q) == q.rangen_
QVal_numElts(q) == q.eltn_
QVal_empty(q) == QVal_numRanges(q) = 0

\* The valid descriptors add() is given: the empty one, one range of e
\* elements, or MaxElts ranges of one element each (every range holds an
\* element).
QVals ==
    {QVal(0, 0)} \cup
    {QVal(1, e) : e \in 1..MaxElts} \cup
    {QVal(MaxElts, MaxElts)}

---------------------------------------------------------------------------
(* SeedResults                                                             *)

NULL == "NULL"
\* values an uninitialized counter may hold after construction
Garbage == {0, 1}

\* EList::resize(n) followed by assigning v to every element
Filled(n, v) == [i \in 1..n |-> v]

\* SeedResults::empty()
empty(s) == s.numRanges_ = 0

\* SeedResults::clear()
clear(s) ==
    [s EXCEPT !.sortedFw_ = <<>>, !.sortedRc_ = <<>>,
              !.rankOffs_ = <<>>, !.rankFws_ = <<>>,
              !.nonzTot_ = 0, !.nonzFw_ = 0, !.nonzRc_ = 0,
              !.numRanges_ = 0, !.numElts_ = 0,
              !.numRangesFw_ = 0, !.numEltsFw_ = 0,
              !.numRangesRc_ = 0, !.numEltsRc_ = 0,
              !.read_ = NULL]

\* reset() without its call of clear()
resetNoClear(s, read, offIdx2off, numOffs) ==
    [s EXCEPT
        !.numOffs_ = numOffs,
        !.hitsFw_ = Filled(numOffs, QVal_reset),
        !.hitsRc_ = Filled(numOffs, QVal_reset),
        !.sortedFw_ = Filled(numOffs, FALSE),
        !.sortedRc_ = Filled(numOffs, FALSE),
        !.offIdx2off_ = offIdx2off,
        !.read_ = read,
        !.sorted_ = FALSE]

\* SeedResults::reset(read, offIdx2off, numOffs)
reset(s, read, offIdx2off, numOffs) ==
    [clear(s) EXCEPT
        !.numOffs_ = numOffs,
        !.hitsFw_ = Filled(numOffs, QVal_reset),
        !.hitsRc_ = Filled(numOffs, QVal_reset),
        !.sortedFw_ = Filled(numOffs, FALSE),
        !.sortedRc_ = Filled(numOffs, FALSE),
        !.offIdx2off_ = offIdx2off,
        !.read_ = read,
        !.sorted_ = FALSE]

\* the number of valid buckets with numRanges > 0 in one list of hits
NonzIn(hits) ==
    Cardinality({i \in 1..Len(hits) :
        QVal_valid(hits[i]) /\ QVal_numRanges(hits[i]) > 0})

\* SeedResults::repOk(ac)
repOk(s) ==
    s.read_ # NULL =>
        /\ s.numOffs_ > 0
        /\ s.numOffs_ = Len(s.hitsFw_)
        /\ s.numOffs_ = Len(s.hitsRc_)
        /\ s.numRanges_ <= s.numElts_
        /\ s.nonzTot_ <= s.numRanges_
        /\ NonzIn(s.hitsFw_) + NonzIn(s.hitsRc_) = s.nonzTot_

\* the body of SeedResults::add(qv, ac, seedIdx, seedFw, seedLen)
addCounted(s, qv, seedIdx, seedFw) ==
    IF QVal_empty(qv) THEN s
    ELSE LET nz == IF QVal_numRanges(qv) > 0 THEN 1 ELSE 0 IN
         IF seedFw
         THEN [s EXCEPT !.hitsFw_[seedIdx + 1] = qv,
                        !.numEltsFw_ = @ + QVal_numElts(qv),
                        !.numRangesFw_ = @ + QVal_numRanges(qv),
                        !.nonzFw_ = @ + nz,
                        !.numElts_ = @ + QVal_numElts(qv),
                        !.numRanges_ = @ + QVal_numRanges(qv),
                        !.nonzTot_ = @ + nz]
         ELSE [s EXCEPT !.hitsRc_[seedIdx + 1] = qv,
                        !.numEltsRc_ = @ + QVal_numElts(qv),
                        !.numRangesRc_ = @ + QVal_numRanges(qv),
                        !.nonzRc_ = @ + nz,
                        !.numElts_ = @ + QVal_numElts(qv),
                        !.numRanges_ = @ + QVal_numRanges(qv),
                        !.nonzTot_ = @ + nz]

\* add() adding the number of ranges, not of elements, to numElts_
addEltsFromRanges(s, qv, seedIdx, seedFw) ==
    IF QVal_empty(qv) THEN s
    ELSE [addCounted(s, qv, seedIdx, seedFw) EXCEPT
             !.numElts_ = s.numElts_ + QVal_numRanges(qv)]

\* SeedResults::add(qv, ac, seedIdx, seedFw, seedLen)
add(s, qv, seedIdx, seedFw) == addCounted(s, qv, seedIdx, seedFw)

\* the test of sort()'s inner loop with the !sorted[i] conjunct left out
betterIgnoringSorted(q, isSorted, minsz) ==
    QVal_valid(q) /\ QVal_numElts(q) > 0 /\ QVal_numElts(q) < minsz

\* the test of sort()'s inner loop with <= in place of <
betterOrEqual(q, isSorted, minsz) ==
    QVal_valid(q) /\ QVal_numElts(q) > 0 /\ ~isSorted /\ QVal_numElts(q) <= minsz

\* the test of sort()'s inner loop: bucket q replaces the current minimum
better(q, isSorted, minsz) ==
    QVal_valid(q) /\ QVal_numElts(q) > 0 /\ ~isSorted /\ QVal_numElts(q) < minsz

\* the list sort() scans in pass fw of its outer loop (fw = 0, then fw = 1)
scanHits(s, fw) == IF fw = 1 THEN s.hitsFw_ ELSE s.hitsRc_
scanSorted(s, fw) == IF fw = 1 THEN s.sortedFw_ ELSE s.sortedRc_

\* the two nested for loops of one iteration of sort(): position k counts
\* the buckets in scan order, fw = k \div numOffs_, i = k % numOffs_
RECURSIVE selectFrom(_, _, _)
selectFrom(s, k, acc) ==
    IF k >= 2 * s.numOffs_ THEN acc
    ELSE LET fw == k \div s.numOffs_
             i == k % s.numOffs_
             q == scanHits(s, fw)[i + 1]
         IN selectFrom(s, k + 1,
                IF better(q, scanSorted(s, fw)[i + 1], acc.minsz)
                THEN [minsz |-> QVal_numElts(q), minidx |-> i, minfw |-> (fw = 1)]
                ELSE acc)

select(s) == selectFrom(s, 0, [minsz |-> UintMax, minidx |-> 0, minfw |-> TRUE])

\* one iteration that ranks the bucket selected without flagging it
sortIterationNoFlag(s) ==
    LET m == select(s) IN
    [s EXCEPT !.rankOffs_ = Append(@, m.minidx),
              !.rankFws_ = Append(@, m.minfw)]

\* one iteration of the while loop of sort(): select, flag, rank
sortIteration(s) ==
    LET m == select(s) IN
    [s EXCEPT
        !.sortedFw_ = IF m.minfw THEN [@ EXCEPT ![m.minidx + 1] = TRUE] ELSE @,
        !.sortedRc_ = IF m.minfw THEN @ ELSE [@ EXCEPT ![m.minidx + 1] = TRUE],
        !.rankOffs_ = Append(@, m.minidx),
        !.rankFws_ = Append(@, m.minfw)]

\* SeedResults::sort(): the while loop, then sorted_ = true
RECURSIVE sortLoop(_)
sortLoop(s) ==
    IF Len(s.rankOffs_) < s.nonzTot_
    THEN sortLoop(sortIteration(s))
    ELSE s

sort(s) == [sortLoop(s) EXCEPT !.sorted_ = TRUE]

\* SeedResults::nonzeroOffsets()
nonzeroOffsets(s) == s.nonzTot_

\* hitsByRank() reading hitsFw_ in both branches
hitsByRankFwOnly(s, r) ==
    [qv |-> s.hitsFw_[s.rankOffs_[r + 1] + 1],
     offidx |-> s.rankOffs_[r + 1],
     off |-> s.offIdx2off_[s.rankOffs_[r + 1] + 1],
     fw |-> s.rankFws_[r + 1]]

\* SeedResults::hitsByRank(r, offidx, off, fw, seedlen): the returned QVal
\* and the out-parameters (seedlen, read from the caller-filled seqFw_ /
\* seqRc_, is not modelled)
hitsByRank(s, r) ==
    IF s.rankFws_[r + 1]
    THEN [qv |-> s.hitsFw_[s.rankOffs_[r + 1] + 1],
          offidx |-> s.rankOffs_[r + 1],
          off |-> s.offIdx2off_[s.rankOffs_[r + 1] + 1],
          fw |-> TRUE]
    ELSE [qv |-> s.hitsRc_[s.rankOffs_[r + 1] + 1],
          offidx |-> s.rankOffs_[r + 1],
          off |-> s.offIdx2off_[s.rankOffs_[r + 1] + 1],
          fw |-> FALSE]

\* no value held (the reference returned by hitsByRank() is dropped at the
\* next call on the object) / a read past the end of the rank vectors
NoRet == [kind |-> "none"]
OutOfRange == [kind |-> "out-of-range"]
Returned(r, v) == [kind |-> "value", r |-> r, val |-> v]

Buckets == {TRUE, FALSE} \X (0..MaxOffs)
NoneAdded == [b \in Buckets |-> QVal_reset]

NumAdded == Cardinality({b \in Buckets : QVal_valid(added[b])})

\* offsets 0, per, 2*per, ... as instantiateSeeds lays the seeds down
Offsets(numOffs, per) == [i \in 1..numOffs |-> (i - 1) * per]

Reset ==
    /\ \E numOffs \in 1..MaxOffs :
          sr' = reset(sr, "read", Offsets(numOffs, Per), numOffs)
    /\ added' = NoneAdded
    /\ ret' = NoRet
    /\ UNCHANGED exceptSr

Clear ==
    /\ sr' = clear(sr)
    /\ ret' = NoRet
    /\ UNCHANGED added
    /\ UNCHANGED exceptSr

\* preconditions of add(): its assertions before the first assignment
Add ==
    /\ sr.numOffs_ > 0
    /\ repOk(sr)
    /\ \E qv \in QVals, seedIdx \in 0..(MaxOffs - 1), seedFw \in BOOLEAN :
          /\ seedIdx < Len(sr.hitsFw_)
          /\ QVal_empty(qv) \/
                ~QVal_valid((IF seedFw THEN sr.hitsFw_ ELSE sr.hitsRc_)[seedIdx + 1])
          /\ QVal_empty(qv) \/ NumAdded < MaxAdds
          /\ sr' = add(sr, qv, seedIdx, seedFw)
          /\ added' = IF QVal_empty(qv) THEN added
                      ELSE [added EXCEPT ![<<seedFw, seedIdx>>] = qv]
    /\ ret' = NoRet
    /\ UNCHANGED exceptSr

\* sort() indexes sortedFw_ / sortedRc_ in its loop: the lists must have
\* their numOffs_ elements whenever the loop body runs
Sort ==
    /\ \/ Len(sr.rankOffs_) >= sr.nonzTot_
       \/ /\ sr.numOffs_ > 0
          /\ Len(sr.sortedFw_) = sr.numOffs_
          /\ Len(sr.sortedRc_) = sr.numOffs_
    /\ sr' = sort(sr)
    /\ ret' = NoRet
    /\ UNCHANGED added
    /\ UNCHANGED exceptSr

\* preconditions of hitsByRank(): assert(sorted_), assert_lt(r, nonzTot_)
HitsByRank ==
    /\ sr.sorted_
    /\ \E r \in 0..(2 * MaxOffs - 1) :
          /\ r < sr.nonzTot_
          /\ ret' = IF r < Len(sr.rankFws_)
                    THEN Returned(r, hitsByRank(sr, r))
                    ELSE OutOfRange
    /\ UNCHANGED <<sr, added>>
    /\ UNCHANGED exceptSr

\* SeedResults::SeedResults(): empty lists, numOffs_ = 0, read_ = NULL; the
\* counters and sorted_ are not initialized
ResultsConstructed ==
    /\ \E g \in [{"nonzTot_", "nonzFw_", "nonzRc_", "numRanges_", "numElts_",
                  "numRangesFw_", "numEltsFw_", "numRangesRc_", "numEltsRc_"}
                 -> Garbage], b \in BOOLEAN :
          sr = [hitsFw_ |-> <<>>, hitsRc_ |-> <<>>,
                sortedFw_ |-> <<>>, sortedRc_ |-> <<>>,
                nonzTot_ |-> g["nonzTot_"], nonzFw_ |-> g["nonzFw_"],
                nonzRc_ |-> g["nonzRc_"],
                numRanges_ |-> g["numRanges_"], numElts_ |-> g["numElts_"],
                numRangesFw_ |-> g["numRangesFw_"], numEltsFw_ |-> g["numEltsFw_"],
                numRangesRc_ |-> g["numRangesRc_"], numEltsRc_ |-> g["numEltsRc_"],
                offIdx2off_ |-> <<>>, rankOffs_ |-> <<>>, rankFws_ |-> <<>>,
                sorted_ |-> b, numOffs_ |-> 0, read_ |-> NULL]
    /\ added = NoneAdded
    /\ ret = NoRet

\* no SeedResults in use: a freshly constructed and cleared object
ResultsIdle ==
    /\ sr = [hitsFw_ |-> <<>>, hitsRc_ |-> <<>>,
             sortedFw_ |-> <<>>, sortedRc_ |-> <<>>,
             nonzTot_ |-> 0, nonzFw_ |-> 0, nonzRc_ |-> 0,
             numRanges_ |-> 0, numElts_ |-> 0,
             numRangesFw_ |-> 0, numEltsFw_ |-> 0,
             numRangesRc_ |-> 0, numEltsRc_ |-> 0,
             offIdx2off_ |-> <<>>, rankOffs_ |-> <<>>, rankFws_ |-> <<>>,
             sorted_ |-> FALSE, numOffs_ |-> 0, read_ |-> NULL]
    /\ added = NoneAdded
    /\ ret = NoRet

---------------------------------------------------------------------------
(* Seed::mmSeeds                                                           *)

SEED_TYPE_EXACT == 1
SEED_TYPE_LEFT_TO_RIGHT == 2
SEED_TYPE_RIGHT_TO_LEFT == 3
SEED_TYPE_INSIDE_OUT == 4

\* Seed::init(ln, ty, oc): the fields of a Seed the policies differ in
Seed(ln, ty) == [len |-> ln, type |-> ty]

\* the canned policies (defined outside this header): one exact seed; a
\* left-to-right seed and its mirror; those two and an inside-out seed
zeroMmSeeds(ln, ps) == Append(ps, Seed(ln, SEED_TYPE_EXACT))

oneMmSeeds(ln, ps) ==
    ps \o <<Seed(ln, SEED_TYPE_LEFT_TO_RIGHT), Seed(ln, SEED_TYPE_RIGHT_TO_LEFT)>>

twoMmSeeds(ln, ps) ==
    ps \o <<Seed(ln, SEED_TYPE_LEFT_TO_RIGHT), Seed(ln, SEED_TYPE_RIGHT_TO_LEFT),
            Seed(ln, SEED_TYPE_INSIDE_OUT)>>

\* the outcome of one mmSeeds call: the list, whether it threw, and the
\* helpers it called
Outcome(ps, thrown, called) == [pols |-> ps, thrown |-> thrown, called |-> called]

\* mmSeeds() with a final else that falls into the two-mismatch policies
mmSeedsNoThrow(mms, ln, ps) ==
    IF mms = 0 THEN Outcome(zeroMmSeeds(ln, ps), FALSE, {"zeroMmSeeds"})
    ELSE IF mms = 1 THEN Outcome(oneMmSeeds(ln, ps), FALSE, {"oneMmSeeds"})
    ELSE Outcome(twoMmSeeds(ln, ps), FALSE, {"twoMmSeeds"})

\* Seed::mmSeeds(mms, ln, pols, oall)
mmSeeds(mms, ln, ps) ==
    IF mms = 0 THEN Outcome(zeroMmSeeds(ln, ps), FALSE, {"zeroMmSeeds"})
    ELSE IF mms = 1 THEN Outcome(oneMmSeeds(ln, ps), FALSE, {"oneMmSeeds"})
    ELSE IF mms = 2 THEN Outcome(twoMmSeeds(ln, ps), FALSE, {"twoMmSeeds"})
    ELSE Outcome(ps, TRUE, {})

NoCall == [made |-> FALSE]
Called(mms, ln, before, out) ==
    [made |-> TRUE, mms |-> mms, ln |-> ln, before |-> before,
     thrown |-> out.thrown, called |-> out.called]

\* a call of mmSeeds with any int mms, on the list as earlier calls left it
MmSeeds ==
    /\ Len(pols) + 3 <= MaxPols
    /\ \E mms \in (-1)..MaxMms, ln \in 1..MaxSeedLen :
          LET out == mmSeeds(mms, ln, pols) IN
          /\ pols' = out.pols
          /\ call' = Called(mms, ln, pols, out)
    /\ UNCHANGED exceptSeed

SeedsIdle ==
    /\ pols = <<>>
    /\ call = NoCall

---------------------------------------------------------------------------
(* ThreadSafe (threading.h): locks the mutex in its constructor when       *)
(* asked to, unlocks it in its destructor if it locked                     *)

Threads == 1..NThreads
Free == 0

\* the constructor can take a mutex that is free
ThreadSafe_canLock(holder) == holder = Free
\* the mutex after ThreadSafe(ptr_mutex, locked) by thread t
ThreadSafe_ctor(holder, t, locked) == IF locked THEN t ELSE holder
\* the mutex after ~ThreadSafe() of an object of thread t built with locked
ThreadSafe_dtor(holder, t, locked) == IF locked THEN Free ELSE holder

---------------------------------------------------------------------------
(* SeedHitSink, SeedCounterSink, SeedActionSink                            *)

Sinks == {"SeedHitSink", "SeedCounterSink", "SeedActionSink"}

Idle == [pc |-> "idle", sink |-> "none", left |-> 0, wrote |-> FALSE]

\* thread t calls report*() of sink s; its *Impl will write n lines
Report(t, s, n) ==
    /\ caller[t].pc = "idle"
    /\ Len(os_[s]) + n <= MaxLines
    /\ caller' = [caller EXCEPT ![t] = [pc |-> "ctor", sink |-> s, left |-> n, wrote |-> FALSE]]
    /\ UNCHANGED <<lock_, os_>>
    /\ UNCHANGED exceptSink

\* the statement ThreadSafe(&this->lock_); constructs a temporary ...
LockTemporary(t, s) ==
    /\ caller[t].pc = "ctor" /\ caller[t].sink = s
    /\ ThreadSafe_canLock(lock_[s])
    /\ lock_' = [lock_ EXCEPT ![s] = ThreadSafe_ctor(@, t, TRUE)]
    /\ caller' = [caller EXCEPT ![t].pc = "dtor"]
    /\ UNCHANGED os_
    /\ UNCHANGED exceptSink

\* ... which is destroyed at the end of that statement, before the call
\* of *Impl in the next one
UnlockTemporary(t, s) ==
    /\ caller[t].pc = "dtor" /\ caller[t].sink = s
    /\ lock_' = [lock_ EXCEPT ![s] = ThreadSafe_dtor(@, t, TRUE)]
    /\ caller' = [caller EXCEPT ![t].pc = "impl"]
    /\ UNCHANGED os_
    /\ UNCHANGED exceptSink

\* *Impl writes one line to the stream of the sink
ImplWrite(t, s) ==
    /\ caller[t].pc = "impl" /\ caller[t].sink = s
    /\ caller[t].left > 0
    /\ os_' = [os_ EXCEPT ![s] = Append(@, t)]
    /\ caller' = [caller EXCEPT ![t] = [@ EXCEPT !.left = @ - 1, !.wrote = TRUE]]
    /\ UNCHANGED lock_
    /\ UNCHANGED exceptSink

\* *Impl and report*() return
ImplReturn(t, s) ==
    /\ caller[t].pc = "impl" /\ caller[t].sink = s
    /\ caller[t].left = 0
    /\ caller' = [caller EXCEPT ![t] = Idle]
    /\ UNCHANGED <<lock_, os_>>
    /\ UNCHANGED exceptSink

\* SeedHitSink::reportSeedHit(rd, seedseq); the Impl writes one line
reportSeedHit ==
    \E t \in Threads :
        \/ Report(t, "SeedHitSink", 1)
        \/ LockTemporary(t, "SeedHitSink")
        \/ UnlockTemporary(t, "SeedHitSink")
        \/ ImplWrite(t, "SeedHitSink")
        \/ ImplReturn(t, "SeedHitSink")

\* SeedCounterSink::reportCounters(rd, c); the Impl writes one line
reportCounters ==
    \E t \in Threads :
        \/ Report(t, "SeedCounterSink", 1)
        \/ LockTemporary(t, "SeedCounterSink")
        \/ UnlockTemporary(t, "SeedCounterSink")
        \/ ImplWrite(t, "SeedCounterSink")
        \/ ImplReturn(t, "SeedCounterSink")

\* SeedActionSink::reportActions(rd, a); the Impl writes a.size() lines
reportActions ==
    \E t \in Threads :
        \/ \E n \in 0..MaxActions : Report(t, "SeedActionSink", n)
        \/ LockTemporary(t, "SeedActionSink")
        \/ UnlockTemporary(t, "SeedActionSink")
        \/ ImplWrite(t, "SeedActionSink")
        \/ ImplReturn(t, "SeedActionSink")

SinksIdle ==
    /\ lock_ = [s \in Sinks |-> Free]
    /\ caller = [t \in Threads |-> Idle]
    /\ os_ = [s \in Sinks |-> <<>>]

---------------------------------------------------------------------------
(* SeedSearchMetrics                                                       *)

Counters ==
    <<"seedsearch", "possearch", "intrahit", "interhit",
      "filteredseed", "ooms", "bwops", "bweds">>

\* SeedSearchMetrics::reset()
Metrics_reset == [k \in 1..Len(Counters) |-> 0]

\* the per-thread metrics object m that thread t merges into the shared one
LocalMetrics(t) == [k \in 1..Len(Counters) |-> IF k % 2 = 1 THEN t ELSE 1]

NotMerging == [pc |-> "idle", getLock |-> FALSE, k |-> 0, tmp |-> 0]

\* the values of getLock open to a new caller: the callers are taken to
\* include at most one that leaves the lock out
GetLockVals(t) ==
    IF \E u \in Threads \ {t} : merger[u].pc # "idle" /\ ~merger[u].getLock
    THEN {TRUE} ELSE BOOLEAN

\* thread t calls merge(m, getLock) on the shared object
mergeCall(t) ==
    /\ merger[t].pc = "idle"
    /\ \E getLock \in GetLockVals(t) :
          merger' = [merger EXCEPT ![t] = [@ EXCEPT !.pc = "ctor", !.getLock = getLock]]
    /\ UNCHANGED <<met, lock>>
    /\ UNCHANGED exceptMet

\* merge() whose guard never takes the lock
mergeCtorUnlocked(t) ==
    /\ merger[t].pc = "ctor"
    /\ merger' = [merger EXCEPT ![t] = [@ EXCEPT !.pc = "load", !.k = 1]]
    /\ UNCHANGED <<met, lock>>
    /\ UNCHANGED exceptMet

\* ThreadSafe ts(&lock, getLock): a named object, alive until merge returns
mergeCtor(t) ==
    /\ merger[t].pc = "ctor"
    /\ merger[t].getLock => ThreadSafe_canLock(lock)
    /\ lock' = ThreadSafe_ctor(lock, t, merger[t].getLock)
    /\ merger' = [merger EXCEPT ![t] = [@ EXCEPT !.pc = "load", !.k = 1]]
    /\ UNCHANGED met
    /\ UNCHANGED exceptMet

\* counter += m.counter, the read of the shared counter
mergeLoad(t) ==
    /\ merger[t].pc = "load"
    /\ merger' = [merger EXCEPT ![t] = [@ EXCEPT !.pc = "store", !.tmp = met[merger[t].k]]]
    /\ UNCHANGED <<met, lock>>
    /\ UNCHANGED exceptMet

\* counter += m.counter, the write of the sum; then the next counter
mergeStore(t) ==
    /\ merger[t].pc = "store"
    /\ met' = [met EXCEPT ![merger[t].k] = merger[t].tmp + LocalMetrics(t)[merger[t].k]]
    /\ merger' = [merger EXCEPT ![t] =
                    [@ EXCEPT !.pc = IF merger[t].k = Len(Counters) THEN "dtor" ELSE "load",
                              !.k = @ + 1, !.tmp = 0]]
    /\ UNCHANGED lock
    /\ UNCHANGED exceptMet

\* merge() returns: ts is destroyed
mergeReturn(t) ==
    /\ merger[t].pc = "dtor"
    /\ lock' = ThreadSafe_dtor(lock, t, merger[t].getLock)
    /\ merger' = [merger EXCEPT ![t] = [@ EXCEPT !.pc = "done"]]
    /\ UNCHANGED met
    /\ UNCHANGED exceptMet

\* SeedSearchMetrics::merge(m, getLock)
merge ==
    \E t \in Threads :
        \/ mergeCall(t)
        \/ mergeCtor(t)
        \/ mergeLoad(t)
        \/ mergeStore(t)
        \/ mergeReturn(t)

\* SeedSearchMetrics::SeedSearchMetrics(): reset(), MUTEX_INIT(lock)
MetricsIdle ==
    /\ met = Metrics_reset
    /\ lock = Free
    /\ merger = [t \in Threads |-> NotMerging]

---------------------------------------------------------------------------
(* searchAllSeeds and the alignment cache (aligner_seed.cpp,               *)
(* aligner_cache.h): per seed, look the sequence up in the local cache,    *)
(* then in the global one; on a miss search the index and commit the hits  *)
(* to the caches; in each case add the hits to the SeedResults of the read *)

\* the two threads of the property, one read each
Aligners == {1, 2}

\* the reference the index is built over, and the seed sequences of reads
Reference == <<"A", "C", "A", "G">>
SeedSeqs == {"A", "C", "T"}
Reads == [1..SeedsPerRead -> SeedSeqs]

\* searchSeedBi for an exact seed: the reference positions it occurs at
searchSeedBi(seq) == {p \in 1..Len(Reference) : Reference[p] = seq}

Absent == [present |-> FALSE, hits |-> {}]
Entry(h) == [present |-> TRUE, hits |-> h]
EmptyCache == [q \in SeedSeqs |-> Absent]

\* AlignmentCache lookup and add; each is one critical section
cacheLookup(c, seq) == c[seq]
\* add() filing the hits under a fixed key
cacheAddOneKey(c, seq, h) == [c EXCEPT !["A"] = Entry(h)]
cacheAdd(c, seq, h) == [c EXCEPT ![seq] = Entry(h)]

NotAligning ==
    [pc |-> "idle", read |-> <<>>, i |-> 0, lcache |-> EmptyCache,
     results |-> <<>>, found |-> {}]

\* searchAllSeeds on one read processed alone, with empty caches
SequentialResults(read) == [i \in 1..Len(read) |-> searchSeedBi(read[i])]

\* the seed the worker is at
CurSeq(w) == w.read[w.i]
\* sr.add(hits) for the current seed, then on to the next seed
Added(w, h) ==
    [w EXCEPT !.results = Append(@, h),
              !.i = @ + 1,
              !.pc = IF w.i = Len(w.read) THEN "done" ELSE "local",
              !.found = {}]

\* thread t starts on a read: sr.reset(), fresh local cache
searchAllSeeds(t) ==
    /\ worker[t].pc = "idle"
    /\ \E read \in Reads :
          worker' = [worker EXCEPT ![t] =
                        [NotAligning EXCEPT !.pc = "local", !.read = read, !.i = 1]]
    /\ UNCHANGED gcache
    /\ UNCHANGED exceptCache

\* query the local cache; on a hit add to sr and skip the search
lookupLocal(t) ==
    /\ worker[t].pc = "local"
    /\ LET e == cacheLookup(worker[t].lcache, CurSeq(worker[t])) IN
          worker' = [worker EXCEPT ![t] =
                        IF e.present THEN Added(@, e.hits)
                        ELSE [@ EXCEPT !.pc = "global"]]
    /\ UNCHANGED gcache
    /\ UNCHANGED exceptCache

\* query the global cache; on a hit promote to local, add to sr
lookupGlobal(t) ==
    /\ worker[t].pc = "global"
    /\ LET e == cacheLookup(gcache, CurSeq(worker[t])) IN
          worker' = [worker EXCEPT ![t] =
                        IF e.present
                        THEN Added([@ EXCEPT !.lcache =
                                      cacheAdd(@, CurSeq(worker[t]), e.hits)], e.hits)
                        ELSE [@ EXCEPT !.pc = "search"]]
    /\ UNCHANGED gcache
    /\ UNCHANGED exceptCache

\* on a miss: searchSeedBi()
search(t) ==
    /\ worker[t].pc = "search"
    /\ worker' = [worker EXCEPT ![t] =
                    [@ EXCEPT !.pc = "commit", !.found = searchSeedBi(CurSeq(worker[t]))]]
    /\ UNCHANGED gcache
    /\ UNCHANGED exceptCache

\* commit the hits found into the caches and into sr
commit(t) ==
    /\ worker[t].pc = "commit"
    /\ gcache' = cacheAdd(gcache, CurSeq(worker[t]), worker[t].found)
    /\ worker' = [worker EXCEPT ![t] =
                    Added([@ EXCEPT !.lcache =
                              cacheAdd(@, CurSeq(worker[t]), worker[t].found)],
                          worker[t].found)]
    /\ UNCHANGED exceptCache

\* the global cache drops an entry
evict ==
    /\ \E q \in SeedSeqs :
          /\ gcache[q].present
          /\ gcache' = [gcache EXCEPT ![q] = Absent]
    /\ UNCHANGED worker
    /\ UNCHANGED exceptCache

CacheIdle ==
    /\ gcache = EmptyCache
    /\ worker = [t \in Aligners |-> NotAligning]

---------------------------------------------------------------------------
(* SeedAligner::instantiateSeeds: the layout of the seeds along the read   *)

\* the layout with the seed never shrunk to the read
instantiateSeedsNoShrink(readLen, seedLen, per) ==
    LET numOffs == (readLen - seedLen) \div per + 1
    IN [len |-> seedLen, numOffs |-> numOffs, offIdx2off |-> Offsets(numOffs, per)]

\* the seed length used, the number of offsets and the offsets 0, per,
\* 2*per, ...; a read shorter than the seed gets one seed shrunk to the read
instantiateSeeds(readLen, seedLen, per) ==
    LET len == IF readLen < seedLen THEN readLen ELSE seedLen
        numOffs == IF readLen < seedLen THEN 1
                   ELSE (readLen - seedLen) \div per + 1
    IN [len |-> len, numOffs |-> numOffs, offIdx2off |-> Offsets(numOffs, per)]

NotInstantiated == [called |-> FALSE]
Instantiated(readLen, seedLen, per, out) ==
    [called |-> TRUE, readLen |-> readLen, seedLen |-> seedLen, per |-> per,
     len |-> out.len, numOffs |-> out.numOffs, offIdx2off |-> out.offIdx2off]

\* instantiateSeeds(seeds, per, read, ..., sr, met): lays the seeds out and
\* calls sr.reset(read, offIdx2off, numOffs), which asserts numOffs > 0
InstantiateSeeds ==
    /\ \E readLen \in 1..MaxReadLen, seedLen \in 1..MaxPolicyLen, per \in 1..MaxPer :
          LET out == instantiateSeeds(readLen, seedLen, per) IN
          /\ seeding' = Instantiated(readLen, seedLen, per, out)
          /\ sr' = IF out.numOffs > 0
                   THEN reset(sr, "read", out.offIdx2off, out.numOffs)
                   ELSE sr
    /\ added' = NoneAdded
    /\ ret' = NoRet
    /\ UNCHANGED exceptLayout

LayoutIdle == seeding = NotInstantiated

---------------------------------------------------------------------------
(* Specifications                                                          *)

Others(own) ==
    /\ own = "Constraint" \/ ConstraintIdle
    /\ own = "SeedResults" \/ ResultsIdle
    /\ own = "Seed" \/ SeedsIdle
    /\ own = "Sinks" \/ SinksIdle
    /\ own = "Metrics" \/ MetricsIdle
    /\ own = "Cache" \/ CacheIdle
    /\ own = "Layout" \/ LayoutIdle

NextConstraint ==
    \/ Configure
    \/ Exact
    \/ MmBased
    \/ Instantiate
    \/ ChargeMismatch
    \/ ChargeN
    \/ ChargeDelete
    \/ ChargeInsert

InitConstraint == ConstraintIdle /\ Others("Constraint")

SpecConstraint == InitConstraint /\ [][NextConstraint]_vars

NextResults ==
    \/ Reset
    \/ Clear
    \/ Add
    \/ Sort
    \/ HitsByRank

InitResults == ResultsConstructed /\ Others("SeedResults")

SpecResults == InitResults /\ [][NextResults]_vars

NextSeeds == MmSeeds

InitSeeds == SeedsIdle /\ Others("Seed")

SpecSeeds == InitSeeds /\ [][NextSeeds]_vars

NextSinks ==
    \/ reportSeedHit
    \/ reportCounters
    \/ reportActions

InitSinks == SinksIdle /\ Others("Sinks")

SpecSinks == InitSinks /\ [][NextSinks]_vars

NextMetrics == merge

InitMetrics == MetricsIdle /\ Others("Metrics")

SpecMetrics == InitMetrics /\ [][NextMetrics]_vars

NextCache ==
    \/ \E t \in Aligners :
          \/ searchAllSeeds(t)
          \/ lookupLocal(t)
          \/ lookupGlobal(t)
          \/ search(t)
          \/ commit(t)
    \/ evict

InitCache == CacheIdle /\ Others("Cache")

SpecCache == InitCache /\ [][NextCache]_vars

NextLayout == InstantiateSeeds

InitLayout == LayoutIdle /\ Others("Layout")

SpecLayout == InitLayout /\ [][NextLayout]_vars

---------------------------------------------------------------------------
(* Claims about Constraint                                                 *)

\* C1: after any sequence of charges, each made only when its can*
\* predicate held, the remaining counters edits, mms, ins and dels of an
\* instantiated Constraint are all >= 0.
C1_CountersStayNonNegative ==
    con.instantiated =>
        con.edits >= 0 /\ con.mms >= 0 /\ con.ins >= 0 /\ con.dels >= 0

C14_MustMatchIffNoEdit ==
    con.instantiated =>
        (mustMatch(con) <=>
            ~(canMismatchAny(con) \/ canInsertAny(con) \/ canDeleteAny(con)))

\* a step of instantiate(); the read lengths it may have been called with
\* are those rdlen for which con' = instantiate(con, rdlen)
InstantiateStep == ~con.instantiated /\ con'.instantiated

\* instantiate() changes nothing but penalty and instantiated, and penalty
\* only if penConst is set
InstantiateFrame ==
    /\ con'.edits = con.edits /\ con'.mms = con.mms
    /\ con'.ins = con.ins /\ con'.dels = con.dels
    /\ con'.editsCeil = con.editsCeil /\ con'.mmsCeil = con.mmsCeil
    /\ con'.insCeil = con.insCeil /\ con'.delsCeil = con.delsCeil
    /\ con'.penaltyCeil = con.penaltyCeil
    /\ con'.penConst = con.penConst /\ con'.penLinear = con.penLinear
    /\ con.penConst = FltMax => con'.penalty = con.penalty

\* penConst + penLinear * rdlen, in halves
PenaltyFunc(c, rdlen) == c.penConst.h + c.penLinear.h * rdlen

\* the integers nearest to n/2: one, or two when n/2 is halfway
Nearest(n) == {k \in (-MaxRdLen - 4)..(MaxRdLen + 4) : 2 * k - n \in {-1, 0, 1}}

C18_AcceptableStable ==
    [][(con.instantiated /\ con'.instantiated /\ acceptable(con))
          => acceptable(con')]_vars

\* no mismatch may be left over and none was there to begin with; two
\* mismatches or Ns were charged to edits
C18_Witness ==
    /\ con.instantiated /\ ncharges = 2
    /\ con.mmsCeil = 0 /\ con.mms = 0
    /\ con.edits = IntMax - 2 /\ con.ins = IntMax /\ con.dels = IntMax
    /\ acceptable(con)

---------------------------------------------------------------------------
(* Claims about SeedResults                                                *)

\* the buckets (fw, offidx) of s that hold hits
NonEmptyBuckets(s) ==
    {b \in Buckets :
        /\ b[2] < s.numOffs_
        /\ LET q == (IF b[1] THEN s.hitsFw_ ELSE s.hitsRc_)[b[2] + 1] IN
              QVal_valid(q) /\ QVal_numRanges(q) > 0}

\* the bucket at rank r (0-based) and the number of its elements
RankedBucket(s, r) == <<s.rankFws_[r + 1], s.rankOffs_[r + 1]>>
RankedElts(s, r) ==
    QVal_numElts((IF s.rankFws_[r + 1] THEN s.hitsFw_ ELSE s.hitsRc_)
                    [s.rankOffs_[r + 1] + 1])

\* the ranks of s list every non-empty bucket once, nothing else, by
\* non-decreasing numElts
RankedAscending(s) ==
    /\ Len(s.rankOffs_) = s.nonzTot_
    /\ Len(s.rankFws_) = s.nonzTot_
    /\ {RankedBucket(s, r) : r \in 0..(Len(s.rankOffs_) - 1)} = NonEmptyBuckets(s)
    /\ Cardinality(NonEmptyBuckets(s)) = Len(s.rankOffs_)
    /\ \A r \in 0..(Len(s.rankOffs_) - 2) : RankedElts(s, r) <= RankedElts(s, r + 1)

\* among the ranked buckets of s with equal numElts: the orientation
\* fwFirst precedes the other one, and within one orientation the lower
\* offidx precedes the higher
TiesOrdered(s, fwFirst) ==
    \A r1, r2 \in 0..(Len(s.rankOffs_) - 1) :
        (r1 < r2 /\ RankedElts(s, r1) = RankedElts(s, r2)) =>
            IF s.rankFws_[r1 + 1] = s.rankFws_[r2 + 1]
            THEN s.rankOffs_[r1 + 1] < s.rankOffs_[r2 + 1]
            ELSE s.rankFws_[r1 + 1] = fwFirst

\* a step that is the first sort() after reset() and the adds that followed
FirstSort == sr.read_ # NULL /\ ~sr.sorted_ /\ sr'.sorted_

\* C3: after reset, any adds and then sort(), the ranked sequence is a
\* permutation of the non-empty buckets and numElts is non-decreasing
\* along the ranks.
C3_SortRanksNonEmptyBuckets == [][FirstSort => RankedAscending(sr')]_vars

\* two ranked buckets, the first ranked one scanned last by sort()
C3_Witness ==
    /\ sr.read_ # NULL /\ sr.sorted_
    /\ sr.nonzTot_ = 2 /\ Len(sr.rankOffs_) = 2
    /\ RankedBucket(sr, 0) = <<TRUE, 1>>
    /\ RankedBucket(sr, 1) = <<FALSE, 0>>
    /\ RankedElts(sr, 0) < RankedElts(sr, 1)

\* C4 as stated: among buckets with equal numElts sort() ranks a forward
\* bucket before a reverse-complement one, and the lower offidx first
\* within one orientation.
C4_TiesForwardFirst == [][FirstSort => TiesOrdered(sr', TRUE)]_vars

\* C4 as amended: among buckets with equal numElts sort() ranks a
\* reverse-complement bucket before a forward one, and the lower offidx
\* first within one orientation.
C4_TiesReverseFirst == [][FirstSort => TiesOrdered(sr', FALSE)]_vars

\* a tie between the two orientations at the same offset, ranked
C4_Witness ==
    /\ sr.read_ # NULL /\ sr.sorted_
    /\ sr.nonzTot_ = 2 /\ Len(sr.rankOffs_) = 2
    /\ RankedElts(sr, 0) = RankedElts(sr, 1)
    /\ RankedBucket(sr, 0) = <<FALSE, 1>>
    /\ RankedBucket(sr, 1) = <<TRUE, 0>>

RECURSIVE SumOver(_, _, _)
\* the sum of field f over the valid buckets of hits[1..n]
SumOver(hits, n, f) ==
    IF n = 0 THEN 0
    ELSE SumOver(hits, n - 1, f) + (IF QVal_valid(hits[n]) THEN hits[n][f] ELSE 0)

\* C5: after reset and any adds that satisfy add's preconditions the
\* aggregate counters equal the counts and sums over the valid buckets,
\* per orientation and in total.
C5_CountersAgreeWithBuckets ==
    sr.read_ # NULL =>
        /\ sr.nonzFw_ = NonzIn(sr.hitsFw_)
        /\ sr.nonzRc_ = NonzIn(sr.hitsRc_)
        /\ sr.nonzTot_ = sr.nonzFw_ + sr.nonzRc_
        /\ sr.numRangesFw_ = SumOver(sr.hitsFw_, Len(sr.hitsFw_), "rangen_")
        /\ sr.numRangesRc_ = SumOver(sr.hitsRc_, Len(sr.hitsRc_), "rangen_")
        /\ sr.numRanges_ = sr.numRangesFw_ + sr.numRangesRc_
        /\ sr.numEltsFw_ = SumOver(sr.hitsFw_, Len(sr.hitsFw_), "eltn_")
        /\ sr.numEltsRc_ = SumOver(sr.hitsRc_, Len(sr.hitsRc_), "eltn_")
        /\ sr.numElts_ = sr.numEltsFw_ + sr.numEltsRc_

\* one bucket of each orientation filled, with different shapes
C5_Witness ==
    /\ sr.read_ # NULL
    /\ sr.nonzFw_ = 1 /\ sr.nonzRc_ = 1
    /\ sr.numRangesFw_ = 1 /\ sr.numEltsFw_ = 2
    /\ sr.numRangesRc_ = 2 /\ sr.numEltsRc_ = 2
    /\ sr.numRanges_ = 3 /\ sr.numElts_ = 4

\* C6: hitsByRank(r) is called only on a sorted object, and what it
\* returns for a rank is the QVal that was passed to add for the bucket
\* (fw, offidx) it reports, with off the entry for offidx of the offset
\* list passed to reset.
C6_HitsByRankReturnsAdded ==
    (sr.read_ # NULL /\ ret.kind = "value") =>
        /\ sr.sorted_
        /\ ret.r < nonzeroOffsets(sr)
        /\ QVal_valid(added[<<ret.val.fw, ret.val.offidx>>])
        /\ ret.val.qv = added[<<ret.val.fw, ret.val.offidx>>]
        /\ ret.val.offidx < sr.numOffs_
        /\ ret.val.off = Offsets(sr.numOffs_, Per)[ret.val.offidx + 1]

\* the second rank read back: a reverse-complement bucket at offset index 1
C6_Witness ==
    /\ sr.read_ # NULL /\ ret.kind = "value"
    /\ ret.r = 1
    /\ ret.val.fw = FALSE /\ ret.val.offidx = 1 /\ ret.val.off = Per
    /\ ret.val.qv = QVal(2, 2)

\* C13: after reset() and any add() and sort() calls, add() after sort()
\* included, sorted_ implies that both rank vectors have nonzTot_ entries
\* (the assertions of nonzeroOffsets()), so hitsByRank(r) with
\* r < nonzTot_ never reads past the end of the rank vectors.
C13_SortedRanksCoverNonzero ==
    /\ (sr.read_ # NULL /\ sr.sorted_) =>
          /\ Len(sr.rankOffs_) = nonzeroOffsets(sr)
          /\ Len(sr.rankFws_) = nonzeroOffsets(sr)
    /\ sr.read_ # NULL => ret # OutOfRange

\* the nine aggregate counters are zero
CountersZero(s) ==
    /\ s.nonzTot_ = 0 /\ s.nonzFw_ = 0 /\ s.nonzRc_ = 0
    /\ s.numRanges_ = 0 /\ s.numElts_ = 0
    /\ s.numRangesFw_ = 0 /\ s.numEltsFw_ = 0
    /\ s.numRangesRc_ = 0 /\ s.numEltsRc_ = 0

\* no bucket of either orientation holds a valid hit
NoValidBucket(s) ==
    /\ \A i \in 1..Len(s.hitsFw_) : ~QVal_valid(s.hitsFw_[i])
    /\ \A i \in 1..Len(s.hitsRc_) : ~QVal_valid(s.hitsRc_[i])

\* C15: after clear(), called in any state, empty() is true, the aggregate
\* counters are zero, the rank vectors are empty and no bucket holds a
\* valid hit.
C15_ClearLeavesNoHit ==
    [][Clear =>
         /\ empty(sr')
         /\ CountersZero(sr')
         /\ sr'.rankOffs_ = <<>> /\ sr'.rankFws_ = <<>>
         /\ NoValidBucket(sr')]_vars

\* the state reset() is to leave: numOffs buckets per orientation, none
\* valid, none flagged sorted, nothing counted, nothing ranked
FreshForRead(s) ==
    /\ s.read_ # NULL
    /\ s.numOffs_ > 0
    /\ s.numOffs_ = Len(s.offIdx2off_)
    /\ Len(s.hitsFw_) = s.numOffs_ /\ Len(s.hitsRc_) = s.numOffs_
    /\ NoValidBucket(s)
    /\ CountersZero(s)
    /\ s.rankOffs_ = <<>> /\ s.rankFws_ = <<>>
    /\ s.sortedFw_ = Filled(s.numOffs_, FALSE)
    /\ s.sortedRc_ = Filled(s.numOffs_, FALSE)
    /\ ~s.sorted_

Ranked(s, fw, i) ==
    \E r \in 1..Len(s.rankOffs_) : s.rankFws_[r] = fw /\ s.rankOffs_[r] = i

\* the selection of an iteration found a bucket (assert_neq(0xffffffff,
\* minsz)) that is valid, holds elements and is not ranked yet
SelectionFound(s) ==
    LET m == select(s)
        q == (IF m.minfw THEN s.hitsFw_ ELSE s.hitsRc_)[m.minidx + 1]
    IN /\ m.minsz # UintMax
       /\ QVal_valid(q) /\ QVal_numElts(q) > 0
       /\ m.minsz = QVal_numElts(q)
       /\ ~Ranked(s, m.minfw, m.minidx)

RECURSIVE EverySelectionFound(_)
\* SelectionFound in every iteration sort() runs from s
EverySelectionFound(s) ==
    IF Len(s.rankOffs_) < s.nonzTot_
    THEN SelectionFound(s) /\ EverySelectionFound(sortIteration(s))
    ELSE TRUE

RECURSIVE SortIterations(_)
\* the number of iterations sort() runs from s
SortIterations(s) ==
    IF Len(s.rankOffs_) < s.nonzTot_
    THEN 1 + SortIterations(sortIteration(s))
    ELSE 0

\* C19: after reset() and any add() and sort() calls, sort() runs
\* nonzTot_ - |rankOffs_| iterations, each of which selects a valid bucket
\* with numElts > 0 that is not ranked yet, and then exits; a second sort()
\* right after changes nothing.
C19_SortSelectsAndTerminates ==
    sr.read_ # NULL =>
        /\ Len(sr.rankOffs_) <= sr.nonzTot_
        /\ SortIterations(sr) = sr.nonzTot_ - Len(sr.rankOffs_)
        /\ EverySelectionFound(sr)
        /\ LET once == sort(sr) IN
              /\ Len(once.rankOffs_) = sr.nonzTot_
              /\ sort(once) = once

\* sorted twice with an add() in between: the bucket added later is
\* smaller than, and ranked after, the one ranked by the first sort()
C19_Witness ==
    /\ sr.read_ # NULL /\ sr.sorted_
    /\ sr.nonzTot_ = 2 /\ Len(sr.rankOffs_) = 2
    /\ RankedElts(sr, 0) > RankedElts(sr, 1)

---------------------------------------------------------------------------
(* Claims about Seed::mmSeeds                                              *)

\* C10: mmSeeds with mms outside {0, 1, 2} raises an error and appends no
\* policy; with mms in {0, 1, 2} it calls exactly one of zeroMmSeeds,
\* oneMmSeeds, twoMmSeeds (the one for mms) and raises no error.
C10_MmSeedsDispatch ==
    call.made =>
        IF call.mms \in {0, 1, 2}
        THEN /\ ~call.thrown
             /\ call.called =
                   {IF call.mms = 0 THEN "zeroMmSeeds"
                    ELSE IF call.mms = 1 THEN "oneMmSeeds" ELSE "twoMmSeeds"}
        ELSE /\ call.thrown
             /\ call.called = {}
             /\ pols = call.before

\* a call with mms = 3 on a list that already holds policies
C10_Witness ==
    /\ call.made /\ call.mms = 3 /\ call.thrown
    /\ Len(pols) = 3 /\ pols = call.before

---------------------------------------------------------------------------
(* Claims about the sinks, the metrics and the cache                       *)

\* the threads inside the *Impl of sink s
InImpl(s) == {t \in Threads : caller[t].pc = "impl" /\ caller[t].sink = s}

\* C7: the lock of a sink is held by the caller for the whole of the *Impl
\* call, so no two threads are inside the *Impl of one sink together.
\* and a thread in the middle of its lines wrote the last line of the stream.
C7_SinkLockHeldDuringImpl ==
    \A s \in Sinks :
        /\ \A t \in InImpl(s) : lock_[s] = t
        /\ Cardinality(InImpl(s)) <= 1
        /\ \A t \in InImpl(s) :
              (caller[t].wrote /\ caller[t].left > 0) => os_[s][Len(os_[s])] = t

\* only the mutual exclusion of C7
C7_OneThreadInImpl == \A s \in Sinks : Cardinality(InImpl(s)) <= 1

\* only the lines of C7
C7_LinesNotInterleaved ==
    \A s \in Sinks : \A t \in InImpl(s) :
        (caller[t].wrote /\ caller[t].left > 0) => os_[s][Len(os_[s])] = t

RECURSIVE SumLocal(_, _)
\* the sum of counter k over the objects merged by threads 1..n
SumLocal(k, n) == IF n = 0 THEN 0 ELSE SumLocal(k, n - 1) + LocalMetrics(n)[k]

---------------------------------------------------------------------------
(* Claims about instantiateSeeds                                           *)

\* C12: instantiateSeeds uses floor((readLen - seedLen) / per) + 1 offsets
\* 0, per, 2*per, ... when the read is at least as long as the seed, and one
\* offset with the seed shrunk to the read otherwise; so there is at least
\* one offset (reset()'s numOffs > 0 holds and the SeedResults gets that
\* many buckets) and every seed ends inside the read.
C12_SeedsLieInsideRead ==
    seeding.called =>
        /\ seeding.numOffs >= 1
        /\ IF seeding.readLen >= seeding.seedLen
           THEN /\ seeding.len = seeding.seedLen
                /\ (seeding.numOffs - 1) * seeding.per
                      <= seeding.readLen - seeding.seedLen
                /\ seeding.numOffs * seeding.per
                      > seeding.readLen - seeding.seedLen
           ELSE seeding.numOffs = 1 /\ seeding.len = seeding.readLen
        /\ Len(seeding.offIdx2off) = seeding.numOffs
        /\ \A i \in 1..seeding.numOffs :
              /\ seeding.offIdx2off[i] = (i - 1) * seeding.per
              /\ seeding.offIdx2off[i] + seeding.len <= seeding.readLen
        /\ sr.numOffs_ = seeding.numOffs
        /\ sr.offIdx2off_ = seeding.offIdx2off
        /\ Len(sr.hitsFw_) = seeding.numOffs

\* a read two seeds long with a stride that leaves the last bases unseeded
C12_Witness ==
    /\ seeding.called
    /\ seeding.readLen = 6 /\ seeding.seedLen = 3 /\ seeding.per = 2
    /\ seeding.numOffs = 2
    /\ seeding.offIdx2off = <<0, 2>>

===========================================================================
